---- MODULE Spec2Model ----
(***************************************************************************)
(* Model of InlineBots::AttachWebView                                      *)
(* (Telegram/SourceFiles/inline_bots/bot_attach_web_view.cpp).             *)
(*                                                                         *)
(* One AttachWebView object ("This") lives on the main thread.  Every      *)
(* public method, every MTP completion handler, every box callback and     *)
(* every panel callback is one atomic action: the code is single threaded  *)
(* and handlers run to completion.  Handlers call each other (request ->   *)
(* cancel -> confirmOpen -> request(button) ...), so each method is a pure *)
(* operator from a state record to a state record, and an action applies   *)
(* the operator of the handler it models to the current state.             *)
(*                                                                         *)
(* The MTP sender is modelled by the set `inflight` of sent requests:      *)
(* send() adds a request under a fresh id, request(id).cancel() removes    *)
(* the request with that id (its handlers never run), and a done/fail      *)
(* handler runs when the environment answers a request that is still in    *)
(* the set.  A request record holds the arguments the code puts in the     *)
(* message and the values its handlers captured.                           *)
(***************************************************************************)
EXTENDS Naturals, Sequences, FiniteSets

\* ---------------------------------------------------------------- bounds
MaxRequests == 2      \* request ids in use at one time, for each kind of handle
MaxBoxes == 2         \* confirm boxes stacked in the window layer
MaxToggles == 1       \* ToggleBotInAttachMenu requests in flight
MaxCloseQueued == 1   \* queued crl::on_main(cancel) calls of the close callback

\* ------------------------------------------------------------ the universe
Null == "null"
This == "this"

Bots == {"b1", "b2"}
OtherBot == "b3"
\* the AttachWebView objects of the other sessions (accounts) of the process
OtherWebViews == {"o1", "o2"}                 \* a bot without attach-menu support
Chats == {"p1"}
Channel == "chan"                \* a peer that is not a user
Peers == Chats \cup Bots

Verified == {"b2"}               \* UserData::isVerified()
SupportsAttachMenu == Bots       \* isBot() && botInfo->supportsAttachMenu
StartCommands == {"", "s"}
QueryIds == {"q1", "q2"}         \* query_id of a webViewResultUrl
NoQuery == "q0"                  \* uint64() : the query id of a simple web view

UsernameInputs == {"b1", "B1", "chan"}

\* QString::toLower on the usernames of the model
ToLower(u) == IF u = "B1" THEN "b1" ELSE IF u = "B2" THEN "b2" ELSE u

\* UserData::username of the bots of the model
UsernameOf(b) == b

VARIABLES
    _peer, _bot, _botUsername, _startCommand,   \* session context
    _requestId, _prolongId,                     \* mtpRequestId handles
    _panel,                                     \* Null, or the queryId the panel was shown with
    _botsRequestId, _botsHash, _attachBots,     \* attach-menu bots list
    _attachBotsUpdates,                         \* the event stream fired in the last step
    _addToMenuId, _addToMenuBot, _addToMenuPeer, _addToMenuStartCommand,
    ActiveWebViews,                             \* the process-wide set
    others,                                     \* for each other AttachWebView: it shows a panel
    clearAll,                                   \* ClearAll() is running, and the set it was called with
    inflight,                                   \* MTP requests sent and not answered or cancelled
    boxes,                                      \* confirm boxes shown, the last one on top
    trusted,                                    \* Storage::Account bot-trusted-open-webview records
    loaded,                                     \* peers the session's Data::Session has loaded
    closeQueued,                                \* cancel() calls posted by the panel's close callback
    afterCancel,                                \* history: cancel() ran and no caller call followed
    fault                                       \* "none", or why the process terminated

vars == <<_peer, _bot, _botUsername, _startCommand, _requestId, _prolongId,
          _panel, _botsRequestId, _botsHash, _attachBots,
          _attachBotsUpdates, _addToMenuId,
          _addToMenuBot, _addToMenuPeer, _addToMenuStartCommand,
          ActiveWebViews, others, clearAll, inflight, boxes, trusted,
          loaded, closeQueued, afterCancel, fault>>

\* The state as one record; `ovf` marks a handler run that needed more
\* request ids or boxes than the bounds allow (such a run is not taken).
State ==
    [_peer |-> _peer, _bot |-> _bot, _botUsername |-> _botUsername,
     _startCommand |-> _startCommand, _requestId |-> _requestId,
     _prolongId |-> _prolongId, _panel |-> _panel,
     _botsRequestId |-> _botsRequestId, _botsHash |-> _botsHash,
     _attachBots |-> _attachBots, _attachBotsUpdates |-> FALSE,
     _addToMenuId |-> _addToMenuId,
     _addToMenuBot |-> _addToMenuBot, _addToMenuPeer |-> _addToMenuPeer,
     _addToMenuStartCommand |-> _addToMenuStartCommand,
     ActiveWebViews |-> ActiveWebViews, others |-> others,
     clearAll |-> clearAll, inflight |-> inflight,
     boxes |-> boxes, trusted |-> trusted, loaded |-> loaded,
     closeQueued |-> closeQueued, afterCancel |-> afterCancel,
     fault |-> fault, ovf |-> FALSE]

Apply(t) ==
    /\ ~t.ovf
    /\ _peer' = t._peer
    /\ _bot' = t._bot
    /\ _botUsername' = t._botUsername
    /\ _startCommand' = t._startCommand
    /\ _requestId' = t._requestId
    /\ _prolongId' = t._prolongId
    /\ _panel' = t._panel
    /\ _botsRequestId' = t._botsRequestId
    /\ _botsHash' = t._botsHash
    /\ _attachBots' = t._attachBots
    /\ _attachBotsUpdates' = t._attachBotsUpdates
    /\ _addToMenuId' = t._addToMenuId
    /\ _addToMenuBot' = t._addToMenuBot
    /\ _addToMenuPeer' = t._addToMenuPeer
    /\ _addToMenuStartCommand' = t._addToMenuStartCommand
    /\ ActiveWebViews' = t.ActiveWebViews
    /\ others' = t.others
    /\ clearAll' = t.clearAll
    /\ inflight' = t.inflight
    /\ boxes' = t.boxes
    /\ trusted' = t.trusted
    /\ loaded' = t.loaded
    /\ closeQueued' = t.closeQueued
    /\ afterCancel' = t.afterCancel
    /\ fault' = t.fault

\* ------------------------------------------------------------- MTP sender
OpenKinds == {"web", "simple", "menu"}

Req(id, kind, peer, bot, arg, enabled) ==
    [id |-> id, kind |-> kind, peer |-> peer, bot |-> bot, arg |-> arg,
     enabled |-> enabled]

\* mtpRequestIds are unique and never reused.  Only their identity matters,
\* so the model draws the id of a request from a range of its own for each
\* kind of handle (the least id of the range that nothing refers to):
\* _requestId's requests, _prolongId's, _botsRequestId's, _addToMenuId's and
\* the toggles, which no handle keeps.
IdBase(kind) ==
    IF kind \in OpenKinds \cup {"resolve"} THEN 0
    ELSE IF kind = "prolong" THEN 10
    ELSE IF kind = "bots" THEN 20
    ELSE IF kind = "addToMenu" THEN 30
    ELSE 40

UsedIds(s) ==
    {r.id : r \in s.inflight}
        \cup {s._requestId, s._prolongId, s._addToMenuId, s._botsRequestId}

FreeIds(s, kind) ==
    ((IdBase(kind) + 1)..(IdBase(kind) + MaxRequests)) \ UsedIds(s)

NewId(s, kind) ==
    IF FreeIds(s, kind) = {} THEN 0
    ELSE CHOOSE i \in FreeIds(s, kind) : \A j \in FreeIds(s, kind) : i <= j

\* api().request(...).done(...).fail(...).send()
Send(s, r) ==
    IF r.id = 0 THEN [s EXCEPT !.ovf = TRUE]
    ELSE [s EXCEPT !.inflight = @ \cup {r}]

\* api().request(id).cancel(); id 0 names no request
CancelRequest(s, id) == [s EXCEPT !.inflight = {r \in @ : r.id # id}]

\* a completion handler starts: the request is no longer in flight
Answered(s, r) == [s EXCEPT !.inflight = @ \ {r}]

\* Expects(...) failed, or a null pointer was dereferenced: the process ends
Fault(s, why) == [s EXCEPT !.fault = why]

\* ------------------------------------------------------ AttachWebView

\* cancel() that leaves the object in ActiveWebViews
CancelStaysRegistered(s) ==
    [s EXCEPT
        !.inflight = {r \in @ : r.id \notin {s._requestId, s._prolongId}},
        !._requestId = 0,
        !._prolongId = 0,
        !._panel = Null,
        !._peer = Null,
        !._bot = Null,
        !._botUsername = "",
        !._startCommand = ""]

\* cancel() that forgets the prolong request
CancelKeepsProlong(s) ==
    [s EXCEPT
        !.ActiveWebViews = @ \ {This},
        !.inflight = {r \in @ : r.id # s._requestId},
        !._requestId = 0,
        !._panel = Null,
        !._peer = Null,
        !._bot = Null,
        !._botUsername = "",
        !._startCommand = ""]

\* AttachWebView::cancel
Cancel(s) ==
    [s EXCEPT
        !.ActiveWebViews = @ \ {This},
        !.inflight = {r \in @ : r.id \notin {s._requestId, s._prolongId}},
        !._requestId = 0,
        !._prolongId = 0,
        !._panel = Null,
        !._peer = Null,
        !._bot = Null,
        !._botUsername = "",
        !._startCommand = ""]

\* requestBots that sends whatever is in flight
RequestBotsAlways(s) ==
    LET id == NewId(s, "bots")
    IN  [Send(s, Req(id, "bots", Null, Null, "", FALSE))
            EXCEPT !._botsRequestId = id]

\* cancel() of the object w of ActiveWebViews: this one, or the one of
\* another session, of which the model keeps only whether it shows a panel
CancelOf(s, w) ==
    IF w = This THEN Cancel(s)
    ELSE [s EXCEPT !.ActiveWebViews = @ \ {w}, !.others[w] = FALSE]

\* show() of the object o of another session
OtherShow(s, o) ==
    [s EXCEPT !.ActiveWebViews = @ \cup {o}, !.others[o] = TRUE]

\* AttachWebView::requestBots
RequestBots(s) ==
    IF s._botsRequestId # 0 THEN s
    ELSE LET id == NewId(s, "bots")
         IN  [Send(s, Req(id, "bots", Null, Null, "", FALSE))
                 EXCEPT !._botsRequestId = id]

\* AttachWebView::started : the webViewResultSent subscription and the
\* timer_each(kProlongTimeout) subscription both live in _panel->lifetime(),
\* so they exist exactly while the panel they were created for exists.
Started(s, queryId) ==
    IF s._peer = Null \/ s._bot = Null THEN Fault(s, "Expects")
    ELSE s

\* show() that does not enter the object in ActiveWebViews
ShowUnregistered(s, queryId) ==
    IF s._bot = Null \/ s._peer = Null THEN Fault(s, "Expects")
    ELSE Started([s EXCEPT !._panel = queryId], queryId)

\* AttachWebView::show
Show(s, queryId) ==
    IF s._bot = Null \/ s._peer = Null THEN Fault(s, "Expects")
    ELSE Started([s EXCEPT !.ActiveWebViews = @ \cup {This},
                           !._panel = queryId],
                 queryId)

\* AttachWebView::request(const WebViewButton &button)
RequestButton(s, button) ==
    IF s._peer = Null \/ s._bot = Null THEN Fault(s, "Expects")
    ELSE LET t == [s EXCEPT !._startCommand = button.startCommand]
             id == NewId(t, "web")
         IN  [Send(t, Req(id, "web", t._peer, t._bot, t._startCommand, FALSE))
                 EXCEPT !._requestId = id]

\* AttachWebView::requestSimple(const WebViewButton &button)
RequestSimpleButton(s, button) ==
    IF s._bot = Null THEN Fault(s, "nullptr")
    ELSE LET id == NewId(s, "simple")
         IN  [Send(s, Req(id, "simple", Null, s._bot, "", FALSE))
                 EXCEPT !._requestId = id]

\* the lambda AttachWebView::requestMenu hands to confirmOpen; urlOf is the
\* bot whose botMenuButtonUrl and botMenuButtonText it captured
RequestMenuLambda(s, urlOf) ==
    IF s._bot = Null THEN Fault(s, "nullptr")
    ELSE LET id == NewId(s, "menu")
         IN  [Send(s, Req(id, "menu", s._bot, s._bot, urlOf, FALSE))
                 EXCEPT !._requestId = id]

\* The continuation `done` that confirmOpen receives: which lambda it is and
\* what the lambda captured.
Done(variant, button, urlOf) ==
    [variant |-> variant, button |-> button, urlOf |-> urlOf]

RunDone(s, done) ==
    IF s.fault # "none" THEN s
    ELSE IF done.variant = "web" THEN RequestButton(s, done.button)
    ELSE IF done.variant = "simple" THEN RequestSimpleButton(s, done.button)
    ELSE RequestMenuLambda(s, done.urlOf)

\* controller->show(box) / active->show(box): the box goes on top of the
\* window's layer stack
ShowBox(s, box) ==
    IF Len(s.boxes) >= MaxBoxes THEN [s EXCEPT !.ovf = TRUE]
    ELSE [s EXCEPT !.boxes = Append(@, box)]

OpenBox(shownBot, done) ==
    [type |-> "open", bot |-> shownBot, variant |-> done.variant,
     startCommand |-> done.button.startCommand, urlOf |-> done.urlOf,
     peer |-> Null]

AddBox(bot, contextPeer, startCommand) ==
    [type |-> "add", bot |-> bot, variant |-> "", startCommand |-> startCommand,
     urlOf |-> Null, peer |-> contextPeer]

IsTrusted(s, bot) == bot \in Verified \/ bot \in s.trusted

\* confirmOpen that never asks
ConfirmOpenUnasked(s, done) ==
    IF s._bot = Null THEN s ELSE RunDone(s, done)

\* confirmOpen that records the trust when it shows the box
ConfirmOpenTrustsAtOnce(s, done) ==
    IF s._bot = Null THEN s
    ELSE IF IsTrusted(s, s._bot) THEN RunDone(s, done)
    ELSE ShowBox([s EXCEPT !.trusted = @ \cup {s._bot}], OpenBox(s._bot, done))

\* AttachWebView::confirmOpen
ConfirmOpen(s, done) ==
    IF s._bot = Null THEN s
    ELSE IF IsTrusted(s, s._bot) THEN RunDone(s, done)
    ELSE ShowBox(s, OpenBox(s._bot, done))

\* the `callback` lambda of confirmOpen, run when the box is confirmed:
\* it reads _bot as it is now; hideLayer() closes every box of the window
ConfirmOpenCallback(s, done) ==
    IF s._bot = Null THEN Fault(s, "nullptr")
    ELSE RunDone([s EXCEPT !.trusted = @ \cup {s._bot}, !.boxes = <<>>], done)

\* AttachWebView::request(controller, peer, bot, button)
RequestKnown(s, controller, peer, bot, button) ==
    IF s._peer = peer /\ s._bot = bot /\ s._panel = Null /\ s._requestId # 0
    THEN s
    ELSE LET t == [Cancel(s) EXCEPT !._bot = bot, !._peer = peer]
         IN  IF controller THEN ConfirmOpen(t, Done("web", button, Null))
             ELSE RequestButton(t, button)

\* AttachWebView::requestSimple(controller, bot, button)
RequestSimple(s, bot, button) ==
    ConfirmOpen([Cancel(s) EXCEPT !._bot = bot, !._peer = bot],
                Done("simple", button, Null))

\* AttachWebView::requestMenu
RequestMenu(s, bot) ==
    ConfirmOpen([Cancel(s) EXCEPT !._bot = bot, !._peer = bot],
                Done("menu", [startCommand |-> ""], bot))

\* AttachWebView::toggleInMenu; the callback is the one of removeFromMenu
\* (enabled = FALSE) or the one of confirmAddToMenu (enabled = TRUE), which
\* holds the `open` lambda with its contextPeer and startCommand
ToggleInMenu(s, bot, enabled, contextPeer, startCommand) ==
    IF Cardinality({r \in s.inflight : r.kind = "toggle"}) >= MaxToggles
    THEN [s EXCEPT !.ovf = TRUE]
    ELSE Send(s, Req(NewId(s, "toggle"), "toggle", contextPeer, bot, startCommand,
                     enabled))

\* the `open` lambda of requestAddToMenu's done handler
OpenLambda(s, contextPeer, bot, startCommand) ==
    IF contextPeer = Null THEN s
    ELSE RequestKnown(s, FALSE, contextPeer, bot,
                      [startCommand |-> startCommand])

\* AttachWebView::confirmAddToMenu
ConfirmAddToMenu(s, bot, contextPeer, startCommand, activeWindow) ==
    IF ~activeWindow THEN s
    ELSE ShowBox(s, AddBox(bot, contextPeer, startCommand))

\* requestAddToMenu that forgets the request in flight without cancelling it
RequestAddToMenuNoCancel(s, peer, bot, startCommand) ==
    IF bot \notin SupportsAttachMenu THEN s
    ELSE LET t == [s EXCEPT !._addToMenuStartCommand = startCommand,
                            !._addToMenuPeer = peer]
         IN  IF t._addToMenuId # 0 /\ t._addToMenuBot = bot THEN t
             ELSE LET u == [t EXCEPT !._addToMenuId = 0]
                      id == NewId(u, "addToMenu")
                  IN  [Send(u, Req(id, "addToMenu", Null, bot, "", FALSE))
                          EXCEPT !._addToMenuBot = bot, !._addToMenuId = id]

\* AttachWebView::requestAddToMenu
RequestAddToMenu(s, peer, bot, startCommand) ==
    IF bot \notin SupportsAttachMenu THEN s
    ELSE LET t == [s EXCEPT !._addToMenuStartCommand = startCommand,
                            !._addToMenuPeer = peer]
         IN  IF t._addToMenuId # 0 /\ t._addToMenuBot = bot THEN t
             ELSE LET u == [CancelRequest(t, t._addToMenuId)
                               EXCEPT !._addToMenuId = 0]
                      id == NewId(u, "addToMenu")
                  IN  [Send(u, Req(id, "addToMenu", Null, bot, "", FALSE))
                          EXCEPT !._addToMenuBot = bot, !._addToMenuId = id]

\* Data::Session::peerByUsername : a loaded peer with that username
PeerByUsername(s, username) ==
    IF \E p \in s.loaded : ToLower(UsernameOf(p)) = ToLower(username)
    THEN CHOOSE p \in s.loaded : ToLower(UsernameOf(p)) = ToLower(username)
    ELSE Null

\* PeerData::asUser
AsUser(peer) == IF peer \in Bots \cup {OtherBot} THEN peer ELSE Null

\* the lambda AttachWebView::resolve hands to resolveUsername
ResolveCallback(s, peer) ==
    LET t == [s EXCEPT !._bot = AsUser(peer)]
    IN  IF t._bot = Null THEN t
        ELSE RequestAddToMenu(t, t._peer, t._bot, t._startCommand)

\* AttachWebView::resolveUsername, called by AttachWebView::resolve
ResolveUsername(s, username) ==
    IF s._peer = Null THEN Fault(s, "nullptr")
    ELSE IF PeerByUsername(s, username) # Null
    THEN ResolveCallback(s, PeerByUsername(s, username))
    ELSE LET t == [CancelRequest(s, s._requestId) EXCEPT !._requestId = 0]
             id == NewId(t, "resolve")
         IN  [Send(t, Req(id, "resolve", Null, Null, username, FALSE))
                 EXCEPT !._requestId = id]

\* AttachWebView::request(peer, botUsername, startCommand)
RequestByUsername(s, peer, botUsername, startCommand) ==
    IF botUsername = "" THEN s
    ELSE LET username == IF s._bot # Null THEN UsernameOf(s._bot)
                         ELSE s._botUsername
         IN  IF /\ s._peer = peer
                /\ ToLower(username) = ToLower(botUsername)
                /\ s._startCommand = startCommand
             THEN s
             ELSE ResolveUsername(
                     [Cancel(s) EXCEPT !._peer = peer,
                                       !._botUsername = botUsername,
                                       !._startCommand = startCommand],
                     botUsername)

\* ------------------------------------------------- completion handlers

\* .done of MTPmessages_RequestWebView (request(button) and requestMenu)
WebViewDone(s, r, queryId) ==
    Show([Answered(s, r) EXCEPT !._requestId = 0], queryId)

\* a fail handler that only clears the handle
WebViewFailSilent(s, r, botInvalid) == [Answered(s, r) EXCEPT !._requestId = 0]

\* .fail of MTPmessages_RequestWebView (request(button) and requestMenu)
WebViewFail(s, r, botInvalid) ==
    LET t == [Answered(s, r) EXCEPT !._requestId = 0]
    IN  IF botInvalid THEN RequestBots(t) ELSE t

\* .done of MTPmessages_RequestSimpleWebView
SimpleWebViewDone(s, r) ==
    Show([Answered(s, r) EXCEPT !._requestId = 0], NoQuery)

\* .fail of MTPmessages_RequestSimpleWebView
SimpleWebViewFail(s, r) == [Answered(s, r) EXCEPT !._requestId = 0]

\* the peer contacts.resolveUsername answers with for a username
ResolvedPeer(username) ==
    IF ToLower(username) = "chan" THEN Channel ELSE ToLower(username)

\* .done of MTPcontacts_ResolveUsername; found = FALSE is an answer whose
\* peer id is empty
ResolveUsernameDone(s, r, found) ==
    LET t == [Answered(s, r) EXCEPT !._requestId = 0]
    IN  IF t._peer = Null THEN Fault(t, "nullptr")
        ELSE IF ~found THEN t
        ELSE ResolveCallback(
                [t EXCEPT !.loaded = @ \cup {ResolvedPeer(r.arg)}],
                ResolvedPeer(r.arg))

\* .fail of MTPcontacts_ResolveUsername (code 400 only adds a toast)
ResolveUsernameFail(s, r) == [Answered(s, r) EXCEPT !._requestId = 0]

\* the timer_each(kProlongTimeout) lambda of started(queryId)
ProlongTick(s) ==
    LET t == [CancelRequest(s, s._prolongId) EXCEPT !._prolongId = 0]
        id == NewId(t, "prolong")
    IN  IF t._peer = Null \/ t._bot = Null THEN Fault(t, "nullptr")
        ELSE [Send(t, Req(id, "prolong", t._peer, t._bot, t._panel, FALSE))
                 EXCEPT !._prolongId = id]

\* .done of MTPmessages_ProlongWebView
ProlongDone(s, r) == [Answered(s, r) EXCEPT !._prolongId = 0]

\* MTPmessages_ProlongWebView has no .fail handler
ProlongFail(s, r) == Answered(s, r)

\* ParseAttachBot : the entry of a bot that is loaded and supports the menu
ParseAttachBot(s, entry) ==
    IF entry.user \in s.loaded /\ entry.user \in SupportsAttachMenu
    THEN <<entry>> ELSE <<>>

\* the loop of requestBots' done handler over data.vbots()
RECURSIVE ParseBots(_, _)
ParseBots(s, entries) ==
    IF entries = <<>> THEN <<>>
    ELSE LET parsed == ParseAttachBot(s, Head(entries))
             kept == IF parsed # <<>> /\ ~parsed[1].inactive
                     THEN parsed ELSE <<>>
         IN  kept \o ParseBots(s, Tail(entries))

\* a done handler that takes every answer for a full one
AttachMenuBotsDoneClears(s, r, data) ==
    LET t == [Answered(s, r) EXCEPT !._botsRequestId = 0]
        u == [t EXCEPT !.loaded =
                 @ \cup {data.bots[i].user : i \in DOMAIN data.bots}]
    IN  [u EXCEPT !._botsHash = data.hash,
                  !._attachBots = ParseBots(u, data.bots),
                  !._attachBotsUpdates = TRUE]

\* .done of MTPmessages_GetAttachMenuBots; data.modified = FALSE is
\* attachMenuBotsNotModified
AttachMenuBotsDone(s, r, data) ==
    LET t == [Answered(s, r) EXCEPT !._botsRequestId = 0]
    IN  IF ~data.modified THEN t
        ELSE LET u == [t EXCEPT !.loaded =
                          @ \cup {data.bots[i].user : i \in DOMAIN data.bots}]
             IN  [u EXCEPT !._botsHash = data.hash,
                           !._attachBots = ParseBots(u, data.bots),
                           !._attachBotsUpdates = TRUE]

\* .fail of MTPmessages_GetAttachMenuBots
AttachMenuBotsFail(s, r) == [Answered(s, r) EXCEPT !._botsRequestId = 0]

\* .done of MTPmessages_GetAttachMenuBot; entry is data.vbot()
AttachMenuBotDone(s, r, entry, activeWindow) ==
    LET t == [Answered(s, r) EXCEPT
                 !._addToMenuId = 0,
                 !._addToMenuBot = Null,
                 !._addToMenuPeer = Null,
                 !._addToMenuStartCommand = "",
                 !.loaded = @ \cup {entry.user}]
        bot == s._addToMenuBot
        contextPeer == s._addToMenuPeer
        startCommand == s._addToMenuStartCommand
        parsed == ParseAttachBot(t, entry)
    IN  IF parsed = <<>> \/ bot # parsed[1].user THEN t
        ELSE IF parsed[1].inactive
        THEN ConfirmAddToMenu(t, parsed[1].user, contextPeer, startCommand,
                              activeWindow)
        ELSE OpenLambda(RequestBots(t), contextPeer, bot, startCommand)

\* .fail of MTPmessages_GetAttachMenuBot
AttachMenuBotFail(s, r) ==
    [Answered(s, r) EXCEPT
        !._addToMenuId = 0,
        !._addToMenuBot = Null,
        !._addToMenuPeer = Null,
        !._addToMenuStartCommand = ""]

\* .done of MTPmessages_ToggleBotInAttachMenu; the callback of an enabling
\* toggle runs the `open` lambda it holds
ToggleDone(s, r) ==
    LET t == RequestBots([Answered(s, r) EXCEPT !._requestId = 0])
    IN  IF r.enabled THEN OpenLambda(t, r.peer, r.bot, r.arg) ELSE t

\* .fail of MTPmessages_ToggleBotInAttachMenu
ToggleFail(s, r) == Cancel(Answered(s, r))

\* the `done` lambda of confirmAddToMenu, run when the box is confirmed:
\* toggleInMenu(...), then close() closes this box
ConfirmAddToMenuDone(s, box) ==
    LET t == ToggleInMenu(s, box.bot, TRUE, box.peer, box.startCommand)
    IN  [t EXCEPT !.boxes = SubSeq(@, 1, Len(@) - 1)]

\* a webViewResultSent subscription that takes every query id for its own
ResultSentUnfiltered(s, queryId) ==
    IF s._panel # Null THEN Cancel(s) ELSE s

\* the webViewResultSent subscription of started(queryId): it lives in the
\* lifetime of the panel shown with queryId, and filters on that id
ResultSent(s, queryId) ==
    IF s._panel = queryId THEN Cancel(s) ELSE s

\* the sendData lambda of show(queryId, ...)
SendData(s) ==
    IF s._peer # s._bot \/ s._panel # NoQuery THEN s
    ELSE IF s._bot = Null THEN Fault(s, "nullptr")
    ELSE Cancel(s)

\* ------------------------------------------------------------- actions

\* The handlers run on the main thread, one at a time: none starts while
\* ClearAll() is in its loop.
Running == fault = "none" /\ ~clearAll.on

\* a call that starts an open: whatever follows is the caller's new work
Call(t) == Apply([t EXCEPT !.afterCancel = FALSE])

\* a handler that ends in cancel() and starts nothing
Cancelled(t) == Apply([t EXCEPT !.afterCancel = TRUE])

\* peers and bots a caller can hand in: the chat whose history is shown, and
\* bots the session has loaded
CallerPeers == Chats
CallerBots == Bots \cap loaded

Top == boxes[Len(boxes)]

\* answers of messages.getAttachMenuBots
Entry(user, inactive) == [user |-> user, inactive |-> inactive]
NotModified == [modified |-> FALSE, hash |-> 0, bots |-> <<>>]
Snapshots ==
    {[modified |-> TRUE, hash |-> 1,
      bots |-> <<Entry("b1", FALSE), Entry("b2", TRUE), Entry(OtherBot, FALSE)>>],
     [modified |-> TRUE, hash |-> 2,
      bots |-> <<Entry("b2", FALSE), Entry("b1", FALSE)>>]}

\* request(peer, botUsername, startCommand) is called
OpenByUsernameFor(peer, username, startCommand) ==
    Call(RequestByUsername(State, peer, username, startCommand))

OpenByUsername ==
    /\ Running
    /\ \E peer \in CallerPeers, username \in UsernameInputs \cup {""},
          startCommand \in StartCommands :
          OpenByUsernameFor(peer, username, startCommand)

\* request(controller, peer, bot, button) is called with a controller
OpenKnownFor(peer, bot) ==
    Call(RequestKnown(State, TRUE, peer, bot, [startCommand |-> ""]))

OpenKnown ==
    /\ Running
    /\ \E peer \in CallerPeers, bot \in CallerBots : OpenKnownFor(peer, bot)

\* the callback of a bot's entry in MakeAttachBotsMenu
AttachMenuClickFor(peer, bot) ==
    Call(RequestKnown(State, FALSE, peer, bot, [startCommand |-> ""]))

AttachMenuClick ==
    /\ Running
    /\ \E peer \in CallerPeers, i \in DOMAIN _attachBots :
          AttachMenuClickFor(peer, _attachBots[i].user)

\* requestSimple(controller, bot, button) is called
OpenSimple ==
    /\ Running
    /\ \E bot \in CallerBots :
          Call(RequestSimple(State, bot, [startCommand |-> ""]))

\* requestMenu(controller, bot) is called
OpenMenu ==
    /\ Running
    /\ \E bot \in CallerBots : Call(RequestMenu(State, bot))

\* cancel() is called (ClearAll, or any other caller)
CancelCall ==
    /\ Running
    /\ Cancelled(Cancel(State))

\* another session's AttachWebView shows its panel, or is cancelled
OtherOpen ==
    /\ Running
    /\ \E o \in OtherWebViews : ~others[o] /\ Apply(OtherShow(State, o))

OtherCancel ==
    /\ Running
    /\ \E o \in OtherWebViews : others[o] /\ Apply(CancelOf(State, o))

\* AttachWebView::ClearAll is called
ClearAllCall ==
    /\ Running
    /\ Apply([State EXCEPT !.clearAll = [on |-> TRUE, was |-> ActiveWebViews]])

\* one turn of its loop: ActiveWebViews().front()->cancel(); front() is the
\* object with the least address, which may be any of them
ClearAllIterate ==
    /\ fault = "none"
    /\ clearAll.on
    /\ ActiveWebViews # {}
    /\ \E w \in ActiveWebViews :
          IF w = This THEN Cancelled(CancelOf(State, w))
          ELSE Apply(CancelOf(State, w))

\* the loop ends: ActiveWebViews().empty()
ClearAllReturn ==
    /\ fault = "none"
    /\ clearAll.on
    /\ ActiveWebViews = {}
    /\ Apply([State EXCEPT !.clearAll = [on |-> FALSE, was |-> {}]])

\* requestBots() is called
RequestBotsCall ==
    /\ Running
    /\ Apply(RequestBots(State))

\* requestAddToMenu(peer, bot, startCommand) is called from outside (a start
\* command reaches it through request(peer, botUsername, startCommand))
AddToMenuFor(peer, bot) == Call(RequestAddToMenu(State, peer, bot, ""))

AddToMenuCall ==
    /\ Running
    /\ \E peer \in CallerPeers \cup {Null}, bot \in CallerBots \cup {OtherBot} :
          AddToMenuFor(peer, bot)

\* removeFromMenu(bot) is called
RemoveFromMenuCall ==
    /\ Running
    /\ \E bot \in CallerBots :
          Apply(ToggleInMenu(State, bot, FALSE, Null, ""))

\* the user confirms the box on top
AcceptBox ==
    /\ Running
    /\ boxes # <<>>
    /\ IF Top.type = "open"
       THEN Apply(ConfirmOpenCallback(
                State, Done(Top.variant, [startCommand |-> Top.startCommand],
                            Top.urlOf)))
       ELSE Apply(ConfirmAddToMenuDone(State, Top))

\* the user dismisses the box on top: no callback runs
DeclineBox ==
    /\ Running
    /\ boxes # <<>>
    /\ Apply([State EXCEPT !.boxes = SubSeq(@, 1, Len(@) - 1)])

\* the `close` lambda of show(): the panel was dismissed, or handleLocalUri
\* opened a tg:// link; it posts cancel() to the main queue
PanelClose ==
    /\ Running
    /\ _panel # Null
    /\ closeQueued < MaxCloseQueued
    /\ Apply([State EXCEPT !.closeQueued = @ + 1])

\* the main queue runs a posted cancel()
QueuedCancel ==
    /\ Running
    /\ closeQueued > 0
    /\ Cancelled([Cancel(State) EXCEPT !.closeQueued = @ - 1])

\* the panel hands over data: the sendData lambda
PanelSendData ==
    /\ Running
    /\ _panel # Null
    /\ LET t == SendData(State)
       IN  IF t._panel = Null THEN Cancelled(t) ELSE Apply(t)

\* Data::Session::webViewResultSent fires with a query id
WebViewResultSent ==
    /\ Running
    /\ \E queryId \in QueryIds :
          IF _panel = queryId THEN Cancelled(ResultSent(State, queryId))
          ELSE Apply(ResultSent(State, queryId))

\* the keepalive timer of the panel fires
Tick ==
    /\ Running
    /\ _panel # Null
    /\ Apply(ProlongTick(State))

\* the server answers a request that is in flight
WebViewFailStep(r, botInvalid) == Apply(WebViewFail(State, r, botInvalid))

AnswerWebView ==
    /\ Running
    /\ \E r \in inflight :
          /\ r.kind \in {"web", "menu"}
          /\ \/ \E queryId \in QueryIds : Apply(WebViewDone(State, r, queryId))
             \/ \E botInvalid \in BOOLEAN : WebViewFailStep(r, botInvalid)

AnswerSimpleWebView ==
    /\ Running
    /\ \E r \in inflight :
          /\ r.kind = "simple"
          /\ \/ Apply(SimpleWebViewDone(State, r))
             \/ Apply(SimpleWebViewFail(State, r))

AnswerResolve ==
    /\ Running
    /\ \E r \in inflight :
          /\ r.kind = "resolve"
          /\ \/ \E found \in BOOLEAN : Apply(ResolveUsernameDone(State, r, found))
             \/ Apply(ResolveUsernameFail(State, r))

AnswerProlong ==
    /\ Running
    /\ \E r \in inflight :
          /\ r.kind = "prolong"
          /\ \/ Apply(ProlongDone(State, r))
             \/ Apply(ProlongFail(State, r))

AttachMenuBotsDoneStep(r, data) == Apply(AttachMenuBotsDone(State, r, data))

AnswerAttachMenuBots ==
    /\ Running
    /\ \E r \in inflight :
          /\ r.kind = "bots"
          /\ \/ \E data \in Snapshots \cup {NotModified} :
                   AttachMenuBotsDoneStep(r, data)
             \/ Apply(AttachMenuBotsFail(State, r))

AttachMenuBotDoneStep(r, user, inactive, activeWindow) ==
    Apply(AttachMenuBotDone(State, r, Entry(user, inactive), activeWindow))

AnswerAttachMenuBot ==
    /\ Running
    /\ \E r \in inflight :
          /\ r.kind = "addToMenu"
          /\ \/ \E user \in Bots, inactive \in BOOLEAN, activeWindow \in BOOLEAN :
                   AttachMenuBotDoneStep(r, user, inactive, activeWindow)
             \/ Apply(AttachMenuBotFail(State, r))

ToggleDoneStep(r) == Apply(ToggleDone(State, r))

ToggleFailStep(r) == Cancelled(ToggleFail(State, r))

AnswerToggle ==
    /\ Running
    /\ \E r \in inflight :
          /\ r.kind = "toggle"
          /\ \/ ToggleDoneStep(r)
             \/ ToggleFailStep(r)

Init ==
    /\ _peer = Null
    /\ _bot = Null
    /\ _botUsername = ""
    /\ _startCommand = ""
    /\ _requestId = 0
    /\ _prolongId = 0
    /\ _panel = Null
    /\ _botsRequestId = 0
    /\ _botsHash = 0
    /\ _attachBots = <<>>
    /\ _attachBotsUpdates = FALSE
    /\ _addToMenuId = 0
    /\ _addToMenuBot = Null
    /\ _addToMenuPeer = Null
    /\ _addToMenuStartCommand = ""
    /\ ActiveWebViews = {}
    /\ others = [o \in OtherWebViews |-> FALSE]
    /\ clearAll = [on |-> FALSE, was |-> {}]
    /\ inflight = {}
    /\ boxes = <<>>
    /\ trusted = {}
    /\ loaded \in {{"b2", OtherBot}, Bots \cup {OtherBot}}
    /\ closeQueued = 0
    /\ afterCancel = FALSE
    /\ fault = "none"

Next ==
    \/ OpenByUsername
    \/ OpenKnown
    \/ AttachMenuClick
    \/ OpenSimple
    \/ OpenMenu
    \/ CancelCall
    \/ RequestBotsCall
    \/ AddToMenuCall
    \/ RemoveFromMenuCall
    \/ AcceptBox
    \/ DeclineBox
    \/ PanelClose
    \/ QueuedCancel
    \/ PanelSendData
    \/ WebViewResultSent
    \/ Tick
    \/ AnswerWebView
    \/ AnswerSimpleWebView
    \/ AnswerResolve
    \/ AnswerProlong
    \/ AnswerAttachMenuBots
    \/ AnswerAttachMenuBot
    \/ AnswerToggle
    \/ OtherOpen
    \/ OtherCancel
    \/ ClearAllCall
    \/ ClearAllIterate
    \/ ClearAllReturn

Spec == Init /\ [][Next]_vars

\* The consent flow: the open variants with their confirm boxes, and the
\* bots list the attach menu's entries come from.
NextConsent ==
    \/ RequestBotsCall
    \/ AnswerAttachMenuBots
    \/ AttachMenuClick
    \/ OpenKnown
    \/ OpenSimple
    \/ OpenMenu
    \/ CancelCall
    \/ AcceptBox
    \/ DeclineBox
    \/ AnswerWebView
    \/ AnswerSimpleWebView

SpecConsent == Init /\ [][NextConsent]_vars

\* The live session: the panel with its callbacks and its keepalive, next to
\* removeFromMenu's toggle.
NextLive ==
    \/ OpenKnown
    \/ OpenSimple
    \/ OpenMenu
    \/ CancelCall
    \/ RemoveFromMenuCall
    \/ AcceptBox
    \/ DeclineBox
    \/ PanelClose
    \/ QueuedCancel
    \/ PanelSendData
    \/ WebViewResultSent
    \/ Tick
    \/ AnswerWebView
    \/ AnswerSimpleWebView
    \/ AnswerProlong
    \/ AnswerToggle

SpecLive == Init /\ [][NextLive]_vars

\* The add-to-menu flow: requestAddToMenu, its confirm box, the toggle and
\* the open that follows.
NextRegistration ==
    \/ AddToMenuCall
    \/ CancelCall
    \/ AcceptBox
    \/ DeclineBox
    \/ AnswerAttachMenuBot
    \/ AnswerToggle
    \/ AnswerWebView

SpecRegistration == Init /\ [][NextRegistration]_vars

\* Open by username: the lookup and what follows it.
NextResolve ==
    \/ OpenByUsername
    \/ CancelCall
    \/ AnswerResolve
    \/ AnswerAttachMenuBot
    \/ AnswerWebView

SpecResolve == Init /\ [][NextResolve]_vars

\* ClearAll() over the objects of several sessions.  Its loop is code that
\* runs: a turn that can be taken is taken, whence the fairness.
NextClearAll ==
    \/ OpenKnown
    \/ CancelCall
    \/ Tick
    \/ AnswerWebView
    \/ AnswerProlong
    \/ OtherOpen
    \/ OtherCancel
    \/ ClearAllCall
    \/ ClearAllIterate
    \/ ClearAllReturn

SpecClearAll ==
    /\ Init
    /\ [][NextClearAll]_vars
    /\ WF_vars(ClearAllIterate)
    /\ WF_vars(ClearAllReturn)

\* ---------------------------------------------------------------- claims

Requests(kinds) == {r \in inflight : r.kind \in kinds}

\* a request that the step sent
Sent(kinds) == {r \in inflight' : r.kind \in kinds} \ inflight

\* C1: supersession.  Once an open for another (peer, bot) has begun, no
\* completion handler of the earlier open's RequestWebView runs: a request
\* sent for a context that is no longer the session's leaves flight only by
\* being cancelled through _requestId, never by being answered.
C1_Supersession ==
    [][\A r \in Requests({"web"}) :
          (/\ r \notin inflight'
           /\ _peer # Null
           /\ _bot # Null
           /\ <<r.peer, r.bot>> # <<_peer, _bot>>)
              => r.id = _requestId]_vars

\* C2: re-entrancy.  With a panel shown for (peer, bot), a call of
\* request(controller, peer, bot, button) for the same pair sends no request
\* and keeps the panel.
C2_Reentrancy ==
    [][\A peer \in CallerPeers, bot \in Bots :
          (/\ Running
           /\ _panel # Null
           /\ _peer = peer
           /\ _bot = bot
           /\ (OpenKnownFor(peer, bot) \/ AttachMenuClickFor(peer, bot)))
              => (_panel' = _panel /\ inflight' = inflight)]_vars

\* C3 as stated: whenever an open request is in flight, its bot is verified
\* or has a trust record (trust records are never removed, so this is trust
\* at the moment of sending).
C3_TrustBeforeEveryOpen ==
    \A r \in Requests(OpenKinds) : r.bot \in Verified \cup trusted

\* C3 amended: an open request sent by a path that goes through confirmOpen
\* (request with a controller, requestSimple, requestMenu, the confirmed
\* box) is for a bot that is verified or has a trust record at that moment.
C3_TrustBeforeConfirmedOpen ==
    [][(OpenKnown \/ OpenSimple \/ OpenMenu \/ AcceptBox)
          => \A r \in Sent(OpenKinds) : r.bot \in Verified \cup trusted']_vars

\* C3 witness: an open request for a bot that is not verified is in flight
\* after its box was confirmed.
C3_Witness ==
    \E r \in Requests(OpenKinds) :
        r.bot \notin Verified /\ r.bot \in trusted /\ boxes = <<>>

\* C4: at most one open request and at most one resolve request in flight.
C4_OneRequestInFlight ==
    /\ Cardinality(Requests(OpenKinds)) <= 1
    /\ Cardinality(Requests({"resolve"})) <= 1

Idle(s) ==
    /\ s._requestId = 0
    /\ s._prolongId = 0
    /\ s._panel = Null
    /\ s._peer = Null
    /\ s._bot = Null
    /\ s._botUsername = ""
    /\ s._startCommand = ""
    /\ This \notin s.ActiveWebViews

\* C5: after cancel() and until the caller's next open call, nothing opens:
\* no open request is sent, no panel is shown, the object is not registered.
C5_NoResurrection ==
    afterCancel =>
        /\ _requestId = 0
        /\ _panel = Null
        /\ This \notin ActiveWebViews

\* C6: in every reachable state cancel() leads to the idle state, with the
\* requests its handles named and every prolong request out of flight, and a
\* second cancel() changes nothing.
C6_CancelIdle ==
    LET t == Cancel(State)
    IN  /\ Idle(t)
        /\ \A r \in t.inflight :
              r.id \notin {_requestId, _prolongId} /\ r.kind # "prolong"
        /\ Cancel(t) = t

\* C6 witness: a state in which cancel() has everything to tear down.
C6_Witness ==
    /\ _panel # Null
    /\ This \in ActiveWebViews
    /\ \E r \in Requests({"prolong"}) : r.id = _prolongId

\* C7: no prolong request is ever sent for a simple web view (query id 0).
C7_NoKeepaliveForSimple ==
    \A r \in Requests({"prolong"}) : r.arg # NoQuery

\* C8: at most one prolong request is in flight, and it belongs to the
\* session that is live: it is the one _prolongId names and carries the
\* query id of the panel shown.
C8_KeepaliveExclusive ==
    /\ Cardinality(Requests({"prolong"})) <= 1
    /\ \A r \in Requests({"prolong"}) :
          r.id = _prolongId /\ _panel # Null /\ r.arg = _panel

\* C9: the trust records change only in the step that confirms an open box,
\* and dismissing a box changes no trust record and sends nothing.
C9_TrustGate ==
    [][/\ (trusted' # trusted) =>
              (boxes # <<>> /\ Top.type = "open" /\ AcceptBox)
       /\ DeclineBox => (trusted' = trusted /\ inflight' = inflight)]_vars

\* C9 witness: a trust record was written and the open request of the
\* confirmed box is in flight.
C9_Witness ==
    /\ trusted = {"b1"}
    /\ boxes = <<>>
    /\ \E r \in Requests(OpenKinds) : r.bot = "b1" /\ r.id = _requestId

\* C10: the scenario of an inactive bot.  The answer shows the add box and
\* sends no toggle; confirming the box sends exactly one toggle(bot, true);
\* the toggle's done handler sends exactly one GetAttachMenuBots request.
C10_InactiveScenario ==
    [][/\ \A r \in Requests({"addToMenu"}) :
             (Running /\ r.bot = _addToMenuBot
                /\ AttachMenuBotDoneStep(r, r.bot, TRUE, TRUE))
                 => /\ boxes' = Append(boxes, boxes'[Len(boxes')])
                    /\ boxes'[Len(boxes')].type = "add"
                    /\ boxes'[Len(boxes')].bot = r.bot
                    /\ Sent({"toggle"}) = {}
       /\ (Running /\ boxes # <<>> /\ Top.type = "add" /\ AcceptBox)
             => /\ Cardinality(Sent({"toggle"})) = 1
                /\ \A x \in Sent({"toggle"}) : x.bot = Top.bot /\ x.enabled
       /\ \A r \in Requests({"toggle"}) :
             (Running /\ r.enabled /\ ToggleDoneStep(r))
                 => Cardinality(Sent({"bots"})) = 1]_vars

C12_ToggleOutcome ==
    [][\A r \in Requests({"toggle"}) :
          /\ (Running /\ ToggleFailStep(r))
                => /\ _requestId' = 0 /\ _prolongId' = 0 /\ _panel' = Null
                   /\ _peer' = Null /\ _bot' = Null
                   /\ _botUsername' = "" /\ _startCommand' = ""
                   /\ This \notin ActiveWebViews'
                   /\ Requests({"prolong"}) \cap inflight' = {}
                   /\ Sent({"bots"}) = {}
          /\ (Running /\ ToggleDoneStep(r))
                => Cardinality(Sent({"bots"})) = 1]_vars

\* C13: a requestAddToMenu call for the bot whose GetAttachMenuBot request
\* is in flight sends nothing, cancels nothing and leaves _addToMenuId,
\* _addToMenuBot, _addToMenuPeer and _addToMenuStartCommand as they were.
C13_RepeatIsNoOp ==
    [][\A peer \in CallerPeers \cup {Null}, bot \in Bots :
          (/\ Running
           /\ _addToMenuId # 0
           /\ _addToMenuBot = bot
           /\ AddToMenuFor(peer, bot))
              => UNCHANGED <<inflight, _addToMenuId, _addToMenuBot,
                             _addToMenuPeer, _addToMenuStartCommand>>]_vars

\* C14: at most one GetAttachMenuBot request is in flight, and it is the one
\* _addToMenuId and _addToMenuBot name; a requestAddToMenu call for another
\* bot takes the request in flight out of flight, sends one for the new bot
\* and tracks the new bot.
C14_OneRegistrationRequest ==
    [][/\ Cardinality({r \in inflight' : r.kind = "addToMenu"}) <= 1
       /\ \A r \in inflight' :
             r.kind = "addToMenu"
                 => r.id = _addToMenuId' /\ r.bot = _addToMenuBot'
       /\ \A peer \in CallerPeers \cup {Null}, bot \in Bots :
             \A r \in Requests({"addToMenu"}) :
                 (Running /\ r.bot # bot /\ AddToMenuFor(peer, bot))
                     => /\ r \notin inflight'
                        /\ _addToMenuBot' = bot
                        /\ \E x \in inflight' :
                              x.kind = "addToMenu" /\ x.bot = bot]_vars

\* C14 witness: the request in flight is for b1 and b1 is the tracked bot.
C14_Witness ==
    /\ _addToMenuBot = "b1"
    /\ _addToMenuPeer = "p1"
    /\ \E r \in Requests({"addToMenu"}) : r.bot = "b1" /\ r.id = _addToMenuId

\* C15: at most one GetAttachMenuBots request is in flight and
\* _botsRequestId names it; requestBots() changes nothing while one is in
\* flight, and sends one when none is (after a full answer, a not-modified
\* answer or a failure, which all clear _botsRequestId).
C15_RefreshIdempotent ==
    /\ Cardinality(Requests({"bots"})) <= 1
    /\ \A r \in Requests({"bots"}) : r.id = _botsRequestId
    /\ Requests({"bots"}) = {} => _botsRequestId = 0
    /\ LET t == RequestBots(State)
       IN  IF Requests({"bots"}) # {} THEN t = State
           ELSE /\ ~t.ovf
                /\ Cardinality({r \in t.inflight : r.kind = "bots"}) = 1
                /\ t._botsRequestId # 0

\* C15 witness: a request sent after an earlier one was answered in full.
C15_Witness ==
    /\ _botsHash # 0
    /\ \E r \in Requests({"bots"}) : r.id = _botsRequestId

\* C16: a not-modified answer to GetAttachMenuBots leaves _attachBots and
\* _botsHash as they were and does not fire _attachBotsUpdates; it only
\* takes the request out of flight and clears _botsRequestId.
C16_NotModifiedKeepsCache ==
    [][\A r \in Requests({"bots"}) :
          (Running /\ AttachMenuBotsDoneStep(r, NotModified))
              => /\ _attachBots' = _attachBots
                 /\ _botsHash' = _botsHash
                 /\ ~_attachBotsUpdates'
                 /\ _botsRequestId' = 0
                 /\ inflight' = inflight \ {r}
                 /\ UNCHANGED <<_peer, _bot, _botUsername, _startCommand,
                                _requestId, _prolongId, _panel, _addToMenuId,
                                _addToMenuBot, _addToMenuPeer,
                                _addToMenuStartCommand, ActiveWebViews,
                                boxes, trusted, loaded>>]_vars

\* C16 witness: a request sent with the hash of a cached list of two bots
\* has been answered and the list is as it was.
C16_Witness ==
    /\ Len(_attachBots) = 2
    /\ _botsHash = 2
    /\ _botsRequestId = 0
    /\ Requests({"bots"}) = {}
    /\ ~_attachBotsUpdates

\* C17: ClearAll() ends, every turn of its loop takes one object out of
\* ActiveWebViews, and when it returns the set is empty and every object
\* that was in it is idle.
C17_ClearAll ==
    /\ [][/\ ClearAllIterate
             => Cardinality(ActiveWebViews') < Cardinality(ActiveWebViews)
          /\ ClearAllReturn
             => /\ ActiveWebViews = {}
                /\ This \in clearAll.was => Idle(State)
                /\ \A o \in clearAll.was \ {This} : ~others[o]]_vars
    /\ (clearAll.on ~> ~clearAll.on)

\* C17 witness: ClearAll() has emptied a set that held this object, with its
\* panel shown, and the objects of two other sessions.
C17_Witness ==
    /\ clearAll.on
    /\ clearAll.was = {This} \cup OtherWebViews
    /\ ActiveWebViews = {}

\* the state a failed lookup of username for (peer, startCommand) leaves:
\* nothing resolved, nothing in flight, nothing cached
LookupFailed(peer, username, startCommand) ==
    /\ _peer = peer
    /\ _botUsername = username
    /\ _startCommand = startCommand
    /\ _bot = Null
    /\ _requestId = 0
    /\ Requests({"resolve"}) = {}
    /\ PeerByUsername(State, username) = Null

Lookups(s) == {r \in s.inflight : r.kind = "resolve"}

\* C18: no answer to a ResolveUsername request sends another one, and a
\* call of request(peer, botUsername, startCommand) that repeats a failed
\* lookup sends a new ResolveUsername request for that username.
C18_RetryIsCallerDriven ==
    /\ \A r \in Requests({"resolve"}) :
          /\ Lookups(ResolveUsernameFail(State, r)) = {}
          /\ \A found \in BOOLEAN :
                Lookups(ResolveUsernameDone(State, r, found)) = {}
    /\ \A peer \in CallerPeers, username \in UsernameInputs,
          startCommand \in StartCommands :
          LookupFailed(peer, username, startCommand)
              => \E r \in Lookups(RequestByUsername(State, peer, username,
                                                    startCommand)) :
                    r.arg = username

\* C19: after every step the object is in ActiveWebViews exactly if it
\* holds a panel (as it is, with neither, after construction); it enters
\* the set only in the done handler of an open request, and when it leaves
\* the set cancel() ran: the panel and its prolong request are gone.
C19_RegistryConsistency ==
    [][/\ (This \in ActiveWebViews') <=> (_panel' # Null)
       /\ (This \notin ActiveWebViews /\ This \in ActiveWebViews')
             => (AnswerWebView \/ AnswerSimpleWebView)
       /\ (This \in ActiveWebViews /\ This \notin ActiveWebViews')
             => (_panel' = Null /\ Requests({"prolong"}) \cap inflight' = {})]_vars

\* C19 witness: the panel is shown and the object is in the set.
C19_Witness ==
    /\ This \in ActiveWebViews
    /\ _panel \in QueryIds
    /\ _requestId = 0

\* C20: webViewResultSent with the query id of the panel shown cancels the
\* session, leaving the object idle with no prolong request in flight; with
\* any other query id, or with no panel shown, it changes nothing.
C20_ConsumedDataEndsSession ==
    \A queryId \in QueryIds :
        LET t == ResultSent(State, queryId)
        IN  IF _panel = queryId
            THEN /\ Idle(t)
                 /\ \A r \in t.inflight : r.kind # "prolong"
                 /\ \A q \in QueryIds : ResultSent(t, q) = t
            ELSE t = State

\* C20 witness: the panel of query id q1 is shown, its prolong request is in
\* flight, and a signal for q2 as well as one for q1 can arrive.
C20_Witness ==
    /\ _panel = "q1"
    /\ This \in ActiveWebViews
    /\ \E r \in Requests({"prolong"}) : r.arg = "q1"
    /\ ResultSent(State, "q2") = State
    /\ ResultSent(State, "q1") # State

\* C21: the preconditions hold.  request(button), show() and started() are
\* never entered, and the callback of the confirm box never runs, with _peer
\* or _bot null: no Expects fails and no null pointer is dereferenced.
C21_AssertionsHold == fault = "none"

\* C22: confirming the box of an open writes the trust record of the bot
\* whose name the box showed, and the open request it sends is for that bot.
C22_ConsentBoundToPromptedBot ==
    [][(Running /\ boxes # <<>> /\ Top.type = "open" /\ AcceptBox)
          => /\ trusted' \subseteq trusted \cup {Top.bot}
             /\ \A r \in Sent(OpenKinds) : r.bot = Top.bot]_vars

====
